---- MODULE Spec2Model ----
(***************************************************************************)
(* Arc history search: the data layer (src/data.py) and the Flask routes   *)
(* (src/app.py).  The state is the file system the program works on: the   *)
(* live History file of each profile, its copy under TEMP_DIR, and the     *)
(* result of the latest refresh, search_history call and HTTP request,     *)
(* and the latest conversion of a datetime to a Chrome time and back;      *)
(* copying and searching hold the position of a refresh and of a search    *)
(* that the threaded server runs side by side.                             *)
(*                                                                         *)
(* Time is scaled: a second has MicrosPerSec ticks, a day SecsPerDay       *)
(* seconds; a Chrome time is a number of ticks since the Chrome epoch, a   *)
(* naive local datetime a number of ticks of local wall-clock time.        *)
(***************************************************************************)
EXTENDS Integers, Sequences, FiniteSets, TLC

VARIABLES source, snapshot, copied, call, http, codec, copying, searching

vars == <<source, snapshot, copied, call, http, codec, copying, searching>>

-----------------------------------------------------------------------------
(* Optional values (Python's None).                                        *)

None == <<>>

Some(x) == <<x>>

IsSome(o) == o # <<>>

Val(o) == o[1]

Min2(a, b) == IF a <= b THEN a ELSE b

Max2(a, b) == IF a >= b THEN a ELSE b

-----------------------------------------------------------------------------
(* Bounds of the model.                                                    *)

\* rows of the visits table of one History file
MaxVisits == 2

\* page numbers 1..MaxPage are requested (the routes also pass 0 and -1)
MaxPage == 2

\* rows the browser writes into one live History file
MaxLiveVisits == 1

\* search_history is called with per_page in 1..MaxPerPage
MaxPerPage == 2

\* datetimes of the days 0..MaxDay are converted
MaxDay == 8

-----------------------------------------------------------------------------
(* Scaled constants of the program and of the platform's clock.            *)

\* src/data.py:25,32 divide and multiply by 1_000_000; scaled to 4 ticks
MicrosPerSec == 4

\* src/data.py:80 names the last second of a day, 23:59:59; a day is scaled
\* to the seconds 0..3, so second 3 stands for 23:59:59
SecsPerDay == 4

\* src/data.py:13 sets 11644473600 seconds; scaled to two days
CHROME_EPOCH_OFFSET == 8

\* src/data.py:25: chrome_time / 1_000_000 is a binary64 near 1.3e10, where
\* neighbouring doubles are 2^-19 s (about 1.9 microseconds) apart; scaled to
\* a grid of 2 ticks, on which the whole seconds lie
FloatUlp == 2

\* src/app.py:9 sets 50; scaled so that one History file can fill a page
PER_PAGE == 2

\* The local time zone that datetime.fromtimestamp and datetime.timestamp
\* (src/data.py:26,31) consult: UTC offset in seconds outside and inside
\* daylight saving time, and the Unix seconds at which DST starts and ends.
StdOffset == 0 - 1

DstOffset == 0

DstStart == 6

DstEnd == 10

-----------------------------------------------------------------------------
(* Timestamp codec: src/data.py:23-32.                                     *)

\* the zone's UTC offset at Unix second u
UtcOffset(u) == IF u >= DstStart /\ u < DstEnd THEN DstOffset ELSE StdOffset

\* datetime.fromtimestamp on whole seconds: local wall-clock second of u
LocalFromUnix(u) == u + UtcOffset(u)

\* datetime.timestamp of a naive datetime (fold = 0): the first Unix second
\* whose wall-clock reading is l, which lies one of the two offsets away
\* from l; a reading the clock skips (the hour lost when DST starts) is
\* taken with the offset in force before the gap
UnixFromLocal(l) ==
    LET cands == {u \in {l - StdOffset, l - DstOffset} : LocalFromUnix(u) = l}
    IN  IF cands # {}
        THEN CHOOSE u \in cands : \A w \in cands : u <= w
        ELSE l - StdOffset

\* a binary64 holding a number of ticks: the nearest point of the grid
FloatRound(t) == ((2 * t + FloatUlp) \div (2 * FloatUlp)) * FloatUlp

\* datetime(year, month, day, hour, minute, second): a naive local datetime
Datetime(day, sec) == (day * SecsPerDay + sec) * MicrosPerSec

DayOf(dt) == dt \div (SecsPerDay * MicrosPerSec)

SecondOf(dt) == (dt \div MicrosPerSec) % SecsPerDay

\* src/data.py:23-26 with datetime.utcfromtimestamp in the place of
\* datetime.fromtimestamp
chrome_time_to_datetime_Utc(chrome_time) ==
    FloatRound(chrome_time) - CHROME_EPOCH_OFFSET * MicrosPerSec

\* src/data.py:23-26
chrome_time_to_datetime(chrome_time) ==
    LET unix_ticks == FloatRound(chrome_time) - CHROME_EPOCH_OFFSET * MicrosPerSec
        unix_sec   == unix_ticks \div MicrosPerSec
    IN  LocalFromUnix(unix_sec) * MicrosPerSec + (unix_ticks % MicrosPerSec)

\* src/data.py:29-32
datetime_to_chrome_time(dt) ==
    LET unix_sec == UnixFromLocal(dt \div MicrosPerSec)
    IN  FloatRound((unix_sec + CHROME_EPOCH_OFFSET) * MicrosPerSec + (dt % MicrosPerSec))

\* datetime.isoformat: the text "date T time . fraction", kept as its fields;
\* texts compare field by field, as strings of fixed-width fields do
isoformat(dt) == <<DayOf(dt), SecondOf(dt), dt % MicrosPerSec>>

\* strftime("%Y-%m-%d %H:%M:%S"): the text without the fraction
strftime(dt) == <<DayOf(dt), SecondOf(dt)>>

\* Python's < on two such texts
TextLess(a, b) ==
    \E i \in 1..Len(a) : a[i] < b[i] /\ \A j \in 1..(i - 1) : a[j] = b[j]

-----------------------------------------------------------------------------
(* Python and SQL primitives the program relies on.                        *)

\* list.sort and ORDER BY on a sequence: Before(a, b) says a sorts strictly
\* before b; elements neither of which sorts before the other keep their
\* order (a stable sort)
StableSort(s, Before(_, _)) ==
    LET n == Len(s)
        pos(i) == 1 + Cardinality({j \in 1..n :
                        \/ Before(s[j], s[i])
                        \/ (~Before(s[i], s[j]) /\ j < i)})
    IN  [k \in 1..n |-> s[CHOOSE i \in 1..n : pos(i) = k]]

Reverse(s) == [k \in 1..Len(s) |-> s[Len(s) + 1 - k]]

\* Python's s[start:end] for integers of either sign
Slice(s, start, end) ==
    LET n  == Len(s)
        lo == IF start < 0 THEN Max2(start + n, 0) ELSE Min2(start, n)
        hi == IF end < 0 THEN Max2(end + n, 0) ELSE Min2(end, n)
    IN  IF lo < hi THEN SubSeq(s, lo + 1, hi) ELSE <<>>

\* SQLite's LIMIT limit OFFSET offset: a negative limit is no limit, a
\* negative offset is offset 0
LimitOffset(s, limit, offset) ==
    LET off  == Max2(offset, 0)
        rest == IF off >= Len(s) THEN <<>> ELSE SubSeq(s, off + 1, Len(s))
    IN  IF limit < 0 \/ limit >= Len(rest) THEN rest ELSE SubSeq(rest, 1, limit)

RECURSIVE SumSeq(_)
SumSeq(s) == IF s = <<>> THEN 0 ELSE Head(s) + SumSeq(Tail(s))

\* SQLite's LIKE folds the case of ASCII letters only
AsciiUpper(c) ==
    CASE c = "a" -> "A"
      [] c = "b" -> "B"
      [] c = "x" -> "X"
      [] OTHER   -> c

\* SQLite's text LIKE pattern: % matches any run of characters, _ any one
\* character, every other character itself up to ASCII case
RECURSIVE Like(_, _)
Like(text, pattern) ==
    IF pattern = <<>> THEN text = <<>>
    ELSE IF Head(pattern) = "%"
         THEN \/ Like(text, Tail(pattern))
              \/ (text # <<>> /\ Like(Tail(text), pattern))
    ELSE IF text = <<>> THEN FALSE
    ELSE /\ (Head(pattern) = "_" \/ AsciiUpper(Head(pattern)) = AsciiUpper(Head(text)))
         /\ Like(Tail(text), Tail(pattern))

\* column LIKE ? on a column that may be NULL: NULL LIKE ? is NULL, which
\* an OR with a false operand and the WHERE clause treat as no match
ColumnLike(column, pattern) == IsSome(column) /\ Like(Val(column), pattern)

-----------------------------------------------------------------------------
(* Files: the live History file of each profile and its copy in TEMP_DIR.  *)

\* src/data.py:15-18, the configured profiles in the order of the dict
HISTORY_PATHS == <<"default", "profile7">>

Profiles == {HISTORY_PATHS[i] : i \in 1..Len(HISTORY_PATHS)}

\* src/data.py:41,57: TEMP_DIR / f"{profile}_History"
DestPath(profile) == profile \o "_History"

\* The urls table of a History file: url and title (NULL, empty or a text)
\* by url id.  Texts are sequences of characters; "e-acute" and "E-acute"
\* stand for the letter e with an acute accent, U+00E9 and U+00C9.
UrlsTable ==
    [u \in 1..4 |->
        CASE u = 1 -> [url |-> <<"a", "b">>,      title |-> Some(<<"x">>)]
          [] u = 2 -> [url |-> <<"x">>,           title |-> Some(<<"A", "B">>)]
          [] u = 3 -> [url |-> <<"a", "x", "b">>, title |-> None]
          [] u = 4 -> [url |-> <<"x">>,           title |-> Some(<<"E-acute">>)]]

\* A file: absent, present but no readable SQLite database, or a database
\* whose visits table holds the rows `visits` in rowid order, each the id of
\* a row of urls and a Chrome time.
AbsentFile == [exists |-> FALSE, valid |-> FALSE, visits |-> <<>>]

CorruptFile == [exists |-> TRUE, valid |-> FALSE, visits |-> <<>>]

Database(visits) == [exists |-> TRUE, valid |-> TRUE, visits |-> visits]

Visit(url, visit_time) == [url |-> url, visit_time |-> visit_time]

\* the file at a path of TEMP_DIR
FileAt(db_path) == snapshot[CHOOSE p \in Profiles : DestPath(p) = db_path]

\* src/data.py:55-58
get_history_db_path(profile) ==
    IF snapshot[profile].exists THEN Some(DestPath(profile)) ELSE None

-----------------------------------------------------------------------------
(* Query builder: src/data.py:61-85.                                       *)

\* the clauses that are set, each with its bound parameter
build_where_clause(keyword, start_date, end_date) ==
    [keyword |-> IF IsSome(keyword) /\ Val(keyword) # <<>>
                 THEN Some(<<"%">> \o Val(keyword) \o <<"%">>)
                 ELSE None,
     start   |-> IF IsSome(start_date)
                 THEN Some(datetime_to_chrome_time(Val(start_date)))
                 ELSE None,
     end     |-> IF IsSome(end_date)
                 THEN Some(datetime_to_chrome_time(
                          Datetime(DayOf(Val(end_date)), SecsPerDay - 1)))
                 ELSE None]

\* the clauses of src/data.py:84 joined by OR
WhereHolds_Or(where, v) ==
    \/ IsSome(where.keyword) /\
          (\/ ColumnLike(Some(UrlsTable[v.url].url), Val(where.keyword))
           \/ ColumnLike(UrlsTable[v.url].title, Val(where.keyword)))
    \/ IsSome(where.start) /\ v.visit_time >= Val(where.start)
    \/ IsSome(where.end) /\ v.visit_time <= Val(where.end)
    \/ (where.keyword = None /\ where.start = None /\ where.end = None)

\* WHERE {where} on a row of visits JOIN urls: the clauses joined by AND,
\* 1=1 when there is none
WhereHolds(where, v) ==
    /\ IsSome(where.keyword) =>
          \/ ColumnLike(Some(UrlsTable[v.url].url), Val(where.keyword))
          \/ ColumnLike(UrlsTable[v.url].title, Val(where.keyword))
    /\ IsSome(where.start) => v.visit_time >= Val(where.start)
    /\ IsSome(where.end) => v.visit_time <= Val(where.end)

\* the rows of visits JOIN urls that satisfy WHERE, in rowid order
Selected(file, where) == SelectSeq(file.visits, LAMBDA v : WhereHolds(where, v))

-----------------------------------------------------------------------------
(* Per-profile executor: src/data.py:88-138.                               *)

\* sqlite3.connect(mode=ro) and execute raise on a file that is missing or
\* is no database
Readable(file) == file.exists /\ file.valid

\* src/data.py:91-99, the body of the try
CountBody(db_path, where) ==
    IF Readable(FileAt(db_path))
    THEN [raised |-> FALSE, value |-> Len(Selected(FileAt(db_path), where))]
    ELSE [raised |-> TRUE, value |-> 0]

\* the except clause of src/data.py:100-102 left out
query_profile_count_NoExcept(db_path, where) == CountBody(db_path, where)

\* src/data.py:88-102
query_profile_count(db_path, where) ==
    LET r == CountBody(db_path, where)
    IN  IF r.raised THEN [raised |-> FALSE, value |-> 0] ELSE r

\* src/data.py:126-133: the dict built from one row; raw_time is the
\* visit_time column the code reads and does not return
ResultRow(v, profile) ==
    LET visit_time == chrome_time_to_datetime(v.visit_time)
        title      == UrlsTable[v.url].title
    IN  [url                |-> UrlsTable[v.url].url,
         title              |-> IF IsSome(title) /\ Val(title) # <<>>
                                THEN Val(title) ELSE <<"(No title)">>,
         visit_time         |-> isoformat(visit_time),
         visit_time_display |-> strftime(visit_time),
         profile            |-> profile,
         raw_time           |-> v.visit_time]

\* ORDER BY visits.visit_time DESC: SQL leaves the order of rows of equal
\* visit_time open; ties come in rowid order or in reverse rowid order
OrderByTimeDesc(rows, ties) ==
    StableSort(IF ties = "rowid" THEN rows ELSE Reverse(rows),
               LAMBDA a, b : a.visit_time > b.visit_time)

\* src/data.py:110-135, the body of the try
RowsBody(db_path, where, limit, offset, profile, ties) ==
    IF Readable(FileAt(db_path))
    THEN LET rows == LimitOffset(OrderByTimeDesc(Selected(FileAt(db_path), where), ties),
                                 limit, offset)
         IN  [raised |-> FALSE,
              value  |-> [i \in 1..Len(rows) |-> ResultRow(rows[i], profile)]]
    ELSE [raised |-> TRUE, value |-> <<>>]

\* src/data.py:105-138
query_profile_rows(db_path, where, limit, offset, profile, ties) ==
    LET r == RowsBody(db_path, where, limit, offset, profile, ties)
    IN  IF r.raised THEN [raised |-> FALSE, value |-> <<>>] ELSE r

-----------------------------------------------------------------------------
(* Cross-profile merge: src/data.py:141-197.                               *)

RECURSIVE Flatten(_)
Flatten(ss) == IF ss = <<>> THEN <<>> ELSE Head(ss) \o Flatten(Tail(ss))

\* src/data.py:160-165
ActiveProfiles(profiles) ==
    SelectSeq(profiles, LAMBDA p : IsSome(get_history_db_path(p)))

\* src/data.py:170-176, one active profile: pagination by the query
SingleProfile(profile, where, page, per_page, ties) ==
    LET db_path     == Val(get_history_db_path(profile))
        total_count == query_profile_count(db_path, where)
        offset      == (page - 1) * per_page
        results     == query_profile_rows(db_path, where, per_page, offset, profile, ties)
    IN  [raised      |-> total_count.raised \/ results.raised,
         results     |-> results.value,
         total_count |-> total_count.value]

\* src/data.py:192: all_results.sort(key=visit_time, reverse=True), a stable
\* sort on the isoformat texts
SortMerged(all_results) ==
    StableSort(all_results, LAMBDA a, b : TextLess(b.visit_time, a.visit_time))

\* src/data.py:179-182,192-197: the sum of the counts and the page cut out
\* of the sorted rows of all profiles
MergedPage(counts, fetched, page, per_page) ==
    LET n           == Len(counts)
        all_results == SortMerged(Flatten([i \in 1..n |-> fetched[i].value]))
        start_idx   == (page - 1) * per_page
        end_idx     == start_idx + per_page
    IN  [raised      |-> \E i \in 1..n : counts[i].raised \/ fetched[i].raised,
         results     |-> Slice(all_results, start_idx, end_idx),
         total_count |-> SumSeq([i \in 1..n |-> counts[i].value])]

\* src/data.py:178-197, several active profiles: fetch, merge, sort, slice
MultiProfile(active_profiles, where, page, per_page, ties) ==
    LET n           == Len(active_profiles)
        counts      == [i \in 1..n |->
                          query_profile_count(DestPath(active_profiles[i]), where)]
        fetch_limit == page * per_page
        fetched     == [i \in 1..n |->
                          query_profile_rows(DestPath(active_profiles[i]), where,
                                             fetch_limit, 0, active_profiles[i], ties)]
    IN  MergedPage(counts, fetched, page, per_page)

\* src/data.py:141-197
search_history(keyword, start_date, end_date, profiles, page, per_page, ties) ==
    LET profs           == IF IsSome(profiles) THEN Val(profiles)
                           ELSE <<"default", "profile7">>
        where           == build_where_clause(keyword, start_date, end_date)
        active_profiles == ActiveProfiles(profs)
    IN  IF active_profiles = <<>>
        THEN [raised |-> FALSE, results |-> <<>>, total_count |-> 0]
        ELSE IF Len(active_profiles) = 1
        THEN SingleProfile(active_profiles[1], where, page, per_page, ties)
        ELSE MultiProfile(active_profiles, where, page, per_page, ties)

-----------------------------------------------------------------------------
(* The latest call of search_history, the latest refresh, the latest HTTP  *)
(* exchange.                                                               *)

NoCall ==
    [op |-> "none", keyword |-> None, start_date |-> None, end_date |-> None,
     profiles |-> None, page |-> 0, per_page |-> 0,
     raised |-> FALSE, results |-> <<>>, total_count |-> 0]

\* mkdir_ok, existed and copy_ok record what the refresh met: whether
\* TEMP_DIR.mkdir succeeded, which live files existed, which copies succeeded
NoRefresh ==
    [done |-> FALSE, raised |-> FALSE, mkdir_ok |-> FALSE,
     paths    |-> [p \in Profiles |-> None],
     existed  |-> [p \in Profiles |-> FALSE],
     copy_ok  |-> [p \in Profiles |-> FALSE]]

NoHttp ==
    [route |-> "none", q |-> None, start |-> None, end |-> None,
     profile |-> None, page |-> None,
     status |-> 0, called |-> FALSE, results |-> <<>>, total_count |-> 0,
     page_out |-> 0, per_page |-> 0, total_pages |-> 0, available |-> <<>>]

\* dt is the datetime handed to datetime_to_chrome_time, chrome_time what it
\* returned, result what chrome_time_to_datetime made of that
NoCodec == [op |-> "none", dt |-> 0, chrome_time |-> 0, result |-> 0]

\* A refresh at work: pc is its position in copy_history_files, i the round
\* of the loop, paths the dict `copied` built so far; half_written holds the
\* profiles whose copy shutil.copy2 has opened for writing and not written
\* to the end, overwritten those whose copy it has opened over an earlier
\* copy.
NoCopying ==
    [pc |-> "idle", i |-> 1,
     paths        |-> [p \in Profiles |-> None],
     existed      |-> [p \in Profiles |-> FALSE],
     copy_ok      |-> [p \in Profiles |-> FALSE],
     half_written |-> {},
     overwritten  |-> {}]

\* A search_history call at work: pc is its position, i the index in the
\* list it walks, active_profiles, counts and fetched its locals; reads
\* lists, for every query it has run, the file the query found at the path.
NoSearching ==
    [pc |-> "idle", profiles |-> <<>>, page |-> 0, per_page |-> 0, i |-> 1,
     active_profiles |-> <<>>, counts |-> <<>>, fetched |-> <<>>,
     reads |-> <<>>]

TieOrders == {"rowid", "reverse"}

\* a caller (a test, the route) calls search_history
Called(keyword, start_date, end_date, profiles, page, per_page, r) ==
    [op |-> "search_history", keyword |-> keyword, start_date |-> start_date,
     end_date |-> end_date, profiles |-> profiles, page |-> page,
     per_page |-> per_page,
     raised |-> r.raised, results |-> r.results, total_count |-> r.total_count]

\* search_history called directly, as src/test_app.py:121-236 does
SearchHistory(keyword, start_date, end_date, profiles, page, per_page) ==
    \E ties \in TieOrders :
      \E r \in {search_history(keyword, start_date, end_date, profiles,
                               page, per_page, ties)} :
        /\ call' = Called(keyword, start_date, end_date, profiles, page, per_page, r)
        /\ http' = NoHttp
        /\ UNCHANGED <<source, snapshot, copied, codec, copying, searching>>

-----------------------------------------------------------------------------
(* Snapshot acquisition: src/data.py:35-52.                                *)

\* What shutil.copy2 can do: succeed; fail before it opens the destination
\* (unreadable source); fail while writing, leaving a truncated destination;
\* fail after the bytes are written (copystat), leaving a complete one.
CopyOutcomes == {"ok", "fail_before", "fail_partial", "fail_after"}

\* src/data.py:44-45, the body of the try, on the files `files` of TEMP_DIR
CopyBody(files, profile, outcome) ==
    IF outcome = "ok"
    THEN [raised |-> FALSE, path |-> Some(DestPath(profile)),
          files |-> [files EXCEPT ![profile] = source[profile]]]
    ELSE [raised |-> TRUE, path |-> None,
          files |-> CASE outcome = "fail_before"  -> files
                      [] outcome = "fail_partial" -> [files EXCEPT ![profile] = CorruptFile]
                      [] OTHER -> [files EXCEPT ![profile] = source[profile]]]

\* the except clause of src/data.py:46-48 left out
CopyOne_NoExcept(files, profile, outcome) ==
    IF source[profile].exists
    THEN CopyBody(files, profile, outcome)
    ELSE [raised |-> FALSE, path |-> None, files |-> files]

\* src/data.py:41-50, one round of the loop
CopyOne(files, profile, outcome) ==
    IF source[profile].exists
    THEN LET r == CopyBody(files, profile, outcome)
         IN  IF r.raised THEN [r EXCEPT !.raised = FALSE, !.path = None] ELSE r
    ELSE [raised |-> FALSE, path |-> None, files |-> files]

\* src/data.py:40-52: the loop from its i-th round on; an exception that
\* leaves a round ends the loop and the function
RECURSIVE CopyLoop(_, _, _, _)
CopyLoop(i, files, paths, outcome) ==
    IF i > Len(HISTORY_PATHS)
    THEN [raised |-> FALSE, paths |-> paths, files |-> files]
    ELSE LET profile == HISTORY_PATHS[i]
             r       == CopyOne(files, profile, outcome[profile])
         IN  IF r.raised
             THEN [raised |-> TRUE, paths |-> paths, files |-> r.files]
             ELSE CopyLoop(i + 1, r.files, [paths EXCEPT ![profile] = r.path], outcome)

\* src/data.py:35-52; mkdir_ok says whether TEMP_DIR.mkdir (line 37) succeeds
copy_history_files(mkdir_ok, outcome) ==
    IF mkdir_ok
    THEN CopyLoop(1, snapshot, [p \in Profiles |-> None], outcome)
    ELSE [raised |-> TRUE, paths |-> [p \in Profiles |-> None], files |-> snapshot]

\* src/app.py:73-82, POST /refresh.  TEMP_DIR.mkdir can fail only while
\* TEMP_DIR holds no file.
Refresh ==
    \E mkdir_ok \in BOOLEAN, outcome \in [Profiles -> CopyOutcomes] :
        /\ mkdir_ok \/ \A p \in Profiles : ~snapshot[p].exists
        /\ \A p \in Profiles : source[p].exists \/ outcome[p] = "ok"
        /\ LET r == copy_history_files(mkdir_ok, outcome)
           IN  /\ snapshot' = r.files
               /\ copied' = [done |-> TRUE, raised |-> r.raised, mkdir_ok |-> mkdir_ok,
                             paths |-> r.paths,
                             existed |-> [p \in Profiles |-> source[p].exists],
                             copy_ok |-> [p \in Profiles |->
                                            source[p].exists /\ outcome[p] = "ok"]]
               /\ http' = [NoHttp EXCEPT
                             !.route = "refresh",
                             !.status = IF r.raised THEN 500 ELSE 200,
                             !.available = SelectSeq(HISTORY_PATHS,
                                                     LAMBDA p : IsSome(r.paths[p]))]
        /\ call' = NoCall
        /\ UNCHANGED <<source, codec, copying, searching>>

\* The browser records a visit in the live History file of a profile
\* (src/data.py:15-18), creating the file if need be.
BrowserVisit(profile, v) ==
    /\ Len(source[profile].visits) < MaxLiveVisits
    /\ source' = [source EXCEPT ![profile] = Database(Append(@.visits, v))]
    /\ call' = NoCall
    /\ http' = NoHttp
    /\ UNCHANGED <<snapshot, copied, codec, copying, searching>>

\* The live History file of a profile goes away (the profile is deleted).
DeleteSource(profile) ==
    /\ source[profile].exists
    /\ source' = [source EXCEPT ![profile] = AbsentFile]
    /\ call' = NoCall
    /\ http' = NoHttp
    /\ UNCHANGED <<snapshot, copied, codec, copying, searching>>

-----------------------------------------------------------------------------
(* The /search route: src/app.py:18-70.                                    *)

Digits == <<"0", "1", "2", "3", "4", "5", "6", "7", "8", "9">>

IsDigit(c) == \E i \in 1..Len(Digits) : Digits[i] = c

DigitValue(c) == (CHOOSE i \in 1..Len(Digits) : Digits[i] = c) - 1

\* str.strip
RECURSIVE StripLeft(_)
StripLeft(t) == IF t # <<>> /\ Head(t) = " " THEN StripLeft(Tail(t)) ELSE t

Strip(t) == Reverse(StripLeft(Reverse(StripLeft(t))))

RECURSIVE DigitsValue(_)
DigitsValue(t) ==
    IF t = <<>> THEN 0
    ELSE 10 * DigitsValue(SubSeq(t, 1, Len(t) - 1)) + DigitValue(t[Len(t)])

\* int(text): blanks around, an optional sign, then one or more digits;
\* anything else raises ValueError
ParseInt(text) ==
    LET t      == Strip(text)
        signed == t # <<>> /\ Head(t) \in {"-", "+"}
        digits == IF signed THEN Tail(t) ELSE t
    IN  IF digits # <<>> /\ \A i \in 1..Len(digits) : IsDigit(digits[i])
        THEN [raised |-> FALSE,
              value  |-> IF signed /\ Head(t) = "-" THEN 0 - DigitsValue(digits)
                         ELSE DigitsValue(digits)]
        ELSE [raised |-> TRUE, value |-> 0]

\* date.fromisoformat(text): the scaled calendar writes a date as the one
\* digit of its day; any other text raises ValueError
DateFromIsoformat(text) ==
    IF Len(text) = 1 /\ IsDigit(text[1])
    THEN [raised |-> FALSE, value |-> DigitValue(text[1])]
    ELSE [raised |-> TRUE, value |-> 0]

\* src/app.py:31-36 and 38-43
ParseDate(date_str) ==
    IF date_str # <<>>
    THEN LET d == DateFromIsoformat(date_str)
         IN  IF d.raised THEN None ELSE Some(Datetime(d.value, 0))
    ELSE None

\* request.args.get(name, default) on a parameter that may be missing
ArgOr(arg, default) == IF IsSome(arg) THEN Val(arg) ELSE default

\* src/app.py:25
ParsePage(page_arg) ==
    IF IsSome(page_arg) THEN ParseInt(Val(page_arg)) ELSE [raised |-> FALSE, value |-> 1]

\* src/app.py:46-51
ProfilesOf(profile) ==
    IF profile = "default" THEN <<"default">>
    ELSE IF profile = "profile7" THEN <<"profile7">>
    ELSE <<"default", "profile7">>

\* src/app.py:62 with the division rounding down
TotalPages_Floor(total_count) == total_count \div PER_PAGE

\* src/app.py:62
TotalPages(total_count) == (total_count + PER_PAGE - 1) \div PER_PAGE

\* src/app.py:18-70, GET /search with the query parameters q, start, end,
\* profile and page, each missing (None) or a text; keyword, page,
\* start_date, end_date and profiles are the handler's locals, r is what
\* search_history returns
Search(q, start, end, profile, page_arg) ==
    \E ties       \in TieOrders,
       keyword    \in {IF Strip(ArgOr(q, <<>>)) # <<>>
                       THEN Some(Strip(ArgOr(q, <<>>))) ELSE None},
       page       \in {ParsePage(page_arg)},
       start_date \in {ParseDate(Strip(ArgOr(start, <<>>)))},
       end_date   \in {ParseDate(Strip(ArgOr(end, <<>>)))},
       profiles   \in {ProfilesOf(ArgOr(profile, "both"))} :
      \E r \in {search_history(keyword, start_date, end_date, Some(profiles),
                               page.value, PER_PAGE, ties)} :
        LET request    == [NoHttp EXCEPT !.route = "search", !.q = q, !.start = start,
                                         !.end = end, !.profile = profile,
                                         !.page = page_arg]
        IN  /\ IF page.raised \/ r.raised
               THEN /\ http' = [request EXCEPT !.status = 500,
                                               !.called = ~page.raised]
                    /\ call' = IF page.raised THEN NoCall
                               ELSE Called(keyword, start_date, end_date, Some(profiles),
                                           page.value, PER_PAGE, r)
               ELSE /\ http' = [request EXCEPT
                                   !.status = 200, !.called = TRUE,
                                   !.results = r.results,
                                   !.total_count = r.total_count,
                                   !.page_out = page.value,
                                   !.per_page = PER_PAGE,
                                   !.total_pages = TotalPages(r.total_count)]
                    /\ call' = Called(keyword, start_date, end_date, Some(profiles),
                                      page.value, PER_PAGE, r)
            /\ UNCHANGED <<source, snapshot, copied, codec, copying, searching>>

-----------------------------------------------------------------------------
(* Inputs and initial file systems.                                        *)

\* the Chrome time of tick sub of Unix second unix_sec
ChromeTime(unix_sec, sub) == (unix_sec + CHROME_EPOCH_OFFSET) * MicrosPerSec + sub

\* the History databases of at most MaxVisits rows, each row one of the
\* visits of `universe`, inserted in the order of `universe`
DatabasesOver(universe) ==
    LET picks == UNION {{s \in [1..n -> 1..Len(universe)] :
                            \A i \in 1..(n - 1) : s[i] <= s[i + 1]} : n \in 0..MaxVisits}
    IN  {Database([i \in 1..Len(s) |-> universe[s[i]]]) : s \in picks}

FilesOver(universe) == {AbsentFile, CorruptFile} \cup DatabasesOver(universe)

\* the profile lists a caller passes (src/app.py:46-51)
ProfileLists == {<<"default">>, <<"profile7">>, <<"default", "profile7">>}

\* The copies found in TEMP_DIR are files out of `files`; nothing else has
\* happened yet.
InitFiles(files) ==
    /\ source = [p \in Profiles |-> AbsentFile]
    /\ snapshot \in [Profiles -> files]
    /\ copied = NoRefresh
    /\ call = NoCall
    /\ http = NoHttp
    /\ codec = NoCodec
    /\ copying = NoCopying
    /\ searching = NoSearching

-----------------------------------------------------------------------------
(* Spec: the program at work.  The browser writes the live files, refresh  *)
(* copies them, searches read the copies.                                  *)

\* the visit the browser records: url 1 at Unix second 4
LifeVisit == Visit(1, ChromeTime(4, 0))

Init == InitFiles({AbsentFile})

Next ==
    \/ \E p \in Profiles : BrowserVisit(p, LifeVisit)
    \/ \E p \in Profiles : DeleteSource(p)
    \/ Refresh
    \/ \E profiles \in ProfileLists, page \in 1..MaxPage :
          SearchHistory(None, None, None, Some(profiles), page, PER_PAGE)

Spec == Init /\ [][Next]_vars

-----------------------------------------------------------------------------
(* SpecMerge: search_history without a filter on every pair of copies whose *)
(* visits lie around a sub-second tie and around the end of DST.            *)

\* Chrome times: a plain one; two neighbouring ticks that one double holds;
\* half a second before the clocks go back and the second they go back
MergeTimes ==
    <<ChromeTime(4, 0), ChromeTime(7, 1), ChromeTime(7, 2),
      ChromeTime(DstEnd - 1, 2), ChromeTime(DstEnd, 0)>>

MergeVisits == [i \in 1..Len(MergeTimes) |-> Visit(1, MergeTimes[i])]

InitMerge == InitFiles(FilesOver(MergeVisits))

NextMerge ==
    /\ call = NoCall
    /\ \E profiles \in ProfileLists, page \in 1..MaxPage, per_page \in 1..MaxPerPage :
          SearchHistory(None, None, None, Some(profiles), page, per_page)

SpecMerge == InitMerge /\ [][NextMerge]_vars

-----------------------------------------------------------------------------
(* SpecFilter: search_history with keyword and date filters on every pair  *)
(* of copies whose visits lie on both sides of a midnight.                 *)

\* 23:59:59 of day 0 and 00:00:00 of day 1, as Chrome times
LastSecondOfDay0 == datetime_to_chrome_time(Datetime(0, SecsPerDay - 1))

MidnightOfDay1 == datetime_to_chrome_time(Datetime(1, 0))

\* 00:00:00 of day 0
MidnightOfDay0 == datetime_to_chrome_time(Datetime(0, 0))

\* a visit at each of the three instants; the first is to a url that the
\* keyword does not match
FilterVisits ==
    <<Visit(4, MidnightOfDay0), Visit(1, LastSecondOfDay0), Visit(1, MidnightOfDay1)>>

FilterKeywords == {None, Some(<<"a">>)}

\* no start date, day 0 at 00:00:00, day 1 at a later time of day
FilterStarts == {None, Some(Datetime(0, 0)), Some(Datetime(1, 2))}

\* no end date, day 0 at a time of day before its last second
FilterEnds == {None, Some(Datetime(0, 1))}

InitFilter == InitFiles(FilesOver(FilterVisits))

NextFilter ==
    /\ call = NoCall
    /\ \E keyword \in FilterKeywords, start_date \in FilterStarts,
          end_date \in FilterEnds, profiles \in ProfileLists,
          page \in 1..MaxPage, per_page \in 1..MaxPerPage :
          SearchHistory(keyword, start_date, end_date, Some(profiles), page, per_page)

SpecFilter == InitFilter /\ [][NextFilter]_vars

-----------------------------------------------------------------------------
(* SpecKeyword: search_history with a keyword on every pair of copies over *)
(* the four rows of urls.                                                  *)

KeywordTime == ChromeTime(4, 0)

KeywordVisits == [u \in 1..4 |-> Visit(u, KeywordTime)]

\* an empty keyword; letters in either case; the wildcards of LIKE; a letter
\* outside ASCII in the case the stored title does not have
Keywords ==
    {<<>>, <<"a">>, <<"A", "B">>, <<"x">>, <<"a", "_", "b">>, <<"%">>, <<"e-acute">>}

InitKeyword == InitFiles(FilesOver(KeywordVisits))

NextKeyword ==
    /\ call = NoCall
    /\ \E keyword \in Keywords, profiles \in ProfileLists, page \in 1..MaxPage :
          SearchHistory(Some(keyword), None, None, Some(profiles), page, PER_PAGE)

SpecKeyword == InitKeyword /\ [][NextKeyword]_vars

-----------------------------------------------------------------------------
(* SpecRoute: GET /search with every combination of query parameters on    *)
(* every pair of copies of a few visits.                                   *)

RouteVisits == <<Visit(1, LastSecondOfDay0), Visit(4, MidnightOfDay1)>>

\* q: missing, blank, a keyword with a blank before it
RouteKeywords == {None, Some(<<" ">>), Some(<<" ", "a">>)}

\* start and end: missing, a date, a text that is no date
RouteStarts == {None, Some(<<"1">>), Some(<<"x">>)}

RouteEnds == {None, Some(<<"0">>), Some(<<"x">>)}

\* profile: missing, a configured profile, another text
RouteProfiles == {None, Some("default"), Some("profile7"), Some("other")}

\* page: missing, 0..MaxPage+1, a negative number, no number, empty
RoutePages ==
    {None, Some(<<"-", "1">>), Some(<<"x">>), Some(<<>>)}
        \cup {Some(<<Digits[n + 1]>>) : n \in 0..(MaxPage + 1)}

InitRoute == InitFiles(FilesOver(RouteVisits))

NextRoute ==
    /\ http = NoHttp
    /\ \E q \in RouteKeywords, start \in RouteStarts, end \in RouteEnds,
          profile \in RouteProfiles, page_arg \in RoutePages :
          Search(q, start, end, profile, page_arg)

SpecRoute == InitRoute /\ [][NextRoute]_vars

-----------------------------------------------------------------------------
(* SpecCodec: a whole-second datetime is converted to a Chrome time and    *)
(* the Chrome time back, as src/test_app.py:46-49 does, for every second   *)
(* of the days 0..MaxDay of the local wall clock.                          *)

\* chrome_time = datetime_to_chrome_time(original)
DatetimeToChromeTime ==
    /\ codec.op = "datetime"
    /\ codec' = [codec EXCEPT !.op = "chrome_time",
                              !.chrome_time = datetime_to_chrome_time(codec.dt)]
    /\ UNCHANGED <<source, snapshot, copied, call, http, copying, searching>>

\* result = chrome_time_to_datetime(chrome_time)
ChromeTimeToDatetime ==
    /\ codec.op = "chrome_time"
    /\ codec' = [codec EXCEPT !.op = "result",
                              !.result = chrome_time_to_datetime(codec.chrome_time)]
    /\ UNCHANGED <<source, snapshot, copied, call, http, copying, searching>>

InitCodec ==
    /\ source = [p \in Profiles |-> AbsentFile]
    /\ snapshot = [p \in Profiles |-> AbsentFile]
    /\ copied = NoRefresh
    /\ call = NoCall
    /\ http = NoHttp
    /\ copying = NoCopying
    /\ searching = NoSearching
    /\ \E day \in 0..MaxDay, sec \in 0..(SecsPerDay - 1) :
          codec = [NoCodec EXCEPT !.op = "datetime", !.dt = Datetime(day, sec)]

NextCodec == DatetimeToChromeTime \/ ChromeTimeToDatetime

SpecCodec == InitCodec /\ [][NextCodec]_vars

-----------------------------------------------------------------------------
(* SpecRace: a POST /refresh and a search run side by side, as the threads *)
(* of app.run (src/app.py:95) do.  The refresh moves through               *)
(* copy_history_files one file operation at a time, the search through     *)
(* search_history one file operation at a time.                            *)

\* src/app.py:76, src/data.py:37-39: the route enters copy_history_files;
\* the latest refresh is now one that has not returned.
\* TEMP_DIR.mkdir can fail only while TEMP_DIR holds no file; its exception
\* leaves the function and the route.
RefreshStart(mkdir_ok) ==
    /\ copying.pc = "idle"
    /\ mkdir_ok \/ \A p \in Profiles : ~snapshot[p].exists
    /\ IF mkdir_ok
       THEN /\ copying' = [NoCopying EXCEPT !.pc = "loop",
                                            !.half_written = copying.half_written,
                                            !.overwritten = copying.overwritten]
            /\ copied' = NoRefresh
            /\ http' = NoHttp
       ELSE /\ copied' = [NoRefresh EXCEPT
                            !.done = TRUE, !.raised = TRUE,
                            !.existed = [p \in Profiles |-> source[p].exists]]
            /\ http' = [NoHttp EXCEPT !.route = "refresh", !.status = 500]
            /\ UNCHANGED copying
    /\ UNCHANGED <<source, snapshot, call, codec, searching>>

\* src/data.py:40-42,49-50: a round of the loop whose source file is absent
CopySkip ==
    /\ copying.pc = "loop"
    /\ copying.i <= Len(HISTORY_PATHS)
    /\ ~source[HISTORY_PATHS[copying.i]].exists
    /\ copying' = [copying EXCEPT !.i = @ + 1,
                                  !.paths[HISTORY_PATHS[copying.i]] = None]
    /\ UNCHANGED <<source, snapshot, copied, call, http, codec, searching>>

\* src/data.py:40-44: a round of the loop whose source file exists;
\* shutil.copy2 opens the source for reading and the destination for
\* writing, which creates the destination or truncates it to no bytes.  If
\* an open fails (`opened` is FALSE) the except clause of lines 46-48 ends
\* the round.
CopyOpen(opened) ==
    /\ copying.pc = "loop"
    /\ copying.i <= Len(HISTORY_PATHS)
    /\ source[HISTORY_PATHS[copying.i]].exists
    /\ LET profile == HISTORY_PATHS[copying.i]
       IN  IF opened
           THEN /\ snapshot' = [snapshot EXCEPT ![profile] = CorruptFile]
                /\ copying' = [copying EXCEPT
                                 !.pc = "write",
                                 !.existed[profile] = TRUE,
                                 !.half_written = @ \cup {profile},
                                 !.overwritten = IF snapshot[profile].exists
                                                 THEN @ \cup {profile} ELSE @]
           ELSE /\ copying' = [copying EXCEPT
                                 !.i = @ + 1,
                                 !.existed[profile] = TRUE,
                                 !.paths[profile] = None]
                /\ UNCHANGED snapshot
    /\ UNCHANGED <<source, copied, call, http, codec, searching>>

\* src/data.py:44: shutil.copy2 writes the bytes of the source into the
\* open destination and closes it.  If a write fails (`written` is FALSE)
\* the destination stays as far as it was written and the except clause of
\* lines 46-48 ends the round.
CopyWrite(written) ==
    /\ copying.pc = "write"
    /\ LET profile == HISTORY_PATHS[copying.i]
       IN  IF written
           THEN /\ snapshot' = [snapshot EXCEPT ![profile] = source[profile]]
                /\ copying' = [copying EXCEPT
                                 !.pc = "stat",
                                 !.half_written = @ \ {profile}]
           ELSE /\ copying' = [copying EXCEPT
                                 !.pc = "loop", !.i = @ + 1,
                                 !.paths[profile] = None]
                /\ UNCHANGED snapshot
    /\ UNCHANGED <<source, copied, call, http, codec, searching>>

\* src/data.py:44-48: shutil.copy2 copies the file times and modes onto the
\* written destination (copystat) and returns, or raises
CopyStat(ok) ==
    /\ copying.pc = "stat"
    /\ LET profile == HISTORY_PATHS[copying.i]
       IN  copying' = [copying EXCEPT
                         !.pc = "loop", !.i = @ + 1,
                         !.copy_ok[profile] = ok,
                         !.paths[profile] = IF ok THEN Some(DestPath(profile))
                                            ELSE None]
    /\ UNCHANGED <<source, snapshot, copied, call, http, codec, searching>>

\* src/data.py:52, src/app.py:77-82: the loop is over, the route answers
RefreshReturn ==
    /\ copying.pc = "loop"
    /\ copying.i > Len(HISTORY_PATHS)
    /\ copied' = [done |-> TRUE, raised |-> FALSE, mkdir_ok |-> TRUE,
                  paths |-> copying.paths, existed |-> copying.existed,
                  copy_ok |-> copying.copy_ok]
    /\ http' = [NoHttp EXCEPT
                  !.route = "refresh", !.status = 200,
                  !.available = SelectSeq(HISTORY_PATHS,
                                          LAMBDA p : IsSome(copying.paths[p]))]
    /\ copying' = [NoCopying EXCEPT !.half_written = copying.half_written,
                                    !.overwritten = copying.overwritten]
    /\ UNCHANGED <<source, snapshot, call, codec, searching>>

\* search_history(profiles=profiles, page=page, per_page=per_page) is
\* called, src/data.py:155-160; the latest call is now one that has not
\* returned
SearchStart(profiles, page, per_page) ==
    /\ searching.pc = "idle"
    /\ searching' = [NoSearching EXCEPT !.pc = "resolve", !.profiles = profiles,
                                        !.page = page, !.per_page = per_page]
    /\ call' = NoCall
    /\ UNCHANGED <<source, snapshot, copied, http, codec, copying>>

\* src/data.py:161-167: a round of the loop over profiles, one call of
\* get_history_db_path; after the last round the code branches
ResolveProfile ==
    /\ searching.pc = "resolve"
    /\ LET profile == searching.profiles[searching.i]
           active  == IF IsSome(get_history_db_path(profile))
                      THEN Append(searching.active_profiles, profile)
                      ELSE searching.active_profiles
           last    == searching.i = Len(searching.profiles)
       IN  searching' = [searching EXCEPT
                           !.active_profiles = active,
                           !.i  = IF last THEN 1 ELSE @ + 1,
                           !.pc = IF ~last THEN "resolve"
                                  ELSE IF active = <<>> THEN "return"
                                  ELSE "count"]
    /\ UNCHANGED <<source, snapshot, copied, call, http, codec, copying>>

\* what a query of the search finds at the path of a profile
Observed(profile, query) ==
    [profile      |-> profile,
     query        |-> query,
     file         |-> FileAt(DestPath(profile)),
     half_written |-> profile \in copying.half_written,
     overwritten  |-> profile \in copying.overwritten]

\* src/data.py:172 and 179-182: one call of _query_profile_count
CountProfile ==
    /\ searching.pc = "count"
    /\ LET profile == searching.active_profiles[searching.i]
           where   == build_where_clause(None, None, None)
           last    == searching.i = Len(searching.active_profiles)
       IN  searching' = [searching EXCEPT
                           !.counts = Append(@, query_profile_count(DestPath(profile), where)),
                           !.reads  = Append(@, Observed(profile, "count")),
                           !.i      = IF last THEN 1 ELSE @ + 1,
                           !.pc     = IF last THEN "rows" ELSE "count"]
    /\ UNCHANGED <<source, snapshot, copied, call, http, codec, copying>>

\* src/data.py:173-174 and 185-189: one call of _query_profile_rows, with
\* the limit and offset of the page if one profile is active and with
\* page * per_page and 0 if several are
FetchProfile ==
    /\ searching.pc = "rows"
    /\ \E ties \in TieOrders :
         LET profile == searching.active_profiles[searching.i]
             where   == build_where_clause(None, None, None)
             single  == Len(searching.active_profiles) = 1
             limit   == IF single THEN searching.per_page
                        ELSE searching.page * searching.per_page
             offset  == IF single THEN (searching.page - 1) * searching.per_page
                        ELSE 0
             last    == searching.i = Len(searching.active_profiles)
         IN  searching' = [searching EXCEPT
                             !.fetched = Append(@, query_profile_rows(DestPath(profile), where,
                                                                      limit, offset, profile, ties)),
                             !.reads   = Append(@, Observed(profile, "rows")),
                             !.i       = IF last THEN 1 ELSE @ + 1,
                             !.pc      = IF last THEN "return" ELSE "rows"]
    /\ UNCHANGED <<source, snapshot, copied, call, http, codec, copying>>

\* src/data.py:166-167, 175 and 191-197: search_history returns
SearchReturn ==
    /\ searching.pc = "return"
    /\ LET n == Len(searching.active_profiles)
           r == IF n = 0
                THEN [raised |-> FALSE, results |-> <<>>, total_count |-> 0]
                ELSE IF n = 1
                THEN [raised      |-> searching.counts[1].raised
                                         \/ searching.fetched[1].raised,
                      results     |-> searching.fetched[1].value,
                      total_count |-> searching.counts[1].value]
                ELSE MergedPage(searching.counts, searching.fetched,
                                searching.page, searching.per_page)
       IN  call' = Called(None, None, None, Some(searching.profiles),
                          searching.page, searching.per_page, r)
    /\ searching' = [NoSearching EXCEPT !.reads = searching.reads]
    /\ UNCHANGED <<source, snapshot, copied, http, codec, copying>>

\* the visits of a snapshot taken earlier and the visit the browser has
\* recorded since
RaceOld == Database(<<Visit(1, ChromeTime(2, 0))>>)

RaceNew == Database(<<Visit(1, ChromeTime(2, 0)), Visit(2, ChromeTime(4, 0))>>)

InitRace ==
    /\ source \in [Profiles -> {AbsentFile, RaceNew}]
    /\ snapshot \in [Profiles -> {AbsentFile, RaceOld}]
    /\ copied = NoRefresh
    /\ call = NoCall
    /\ http = NoHttp
    /\ codec = NoCodec
    /\ copying = NoCopying
    /\ searching = NoSearching

NextRace ==
    \/ \E mkdir_ok \in BOOLEAN : RefreshStart(mkdir_ok)
    \/ CopySkip
    \/ \E opened \in BOOLEAN : CopyOpen(opened)
    \/ \E written \in BOOLEAN : CopyWrite(written)
    \/ \E ok \in BOOLEAN : CopyStat(ok)
    \/ RefreshReturn
    \/ \E profiles \in ProfileLists, page \in 1..MaxPage :
          SearchStart(profiles, page, PER_PAGE)
    \/ ResolveProfile
    \/ CountProfile
    \/ FetchProfile
    \/ SearchReturn

SpecRace == InitRace /\ [][NextRace]_vars

-----------------------------------------------------------------------------
(* What the claims speak about.                                            *)

\* a call of search_history has returned
Searched == call.op = "search_history" /\ ~call.raised

\* the profiles of the latest call that resolve to a copy
Resolved == ActiveProfiles(Val(call.profiles))

\* the clauses of the latest call
CallWhere == build_where_clause(call.keyword, call.start_date, call.end_date)

\* the Chrome times of the rows of the resolved profiles that satisfy the
\* clauses of the latest call, latest first
MatchingTimesDesc ==
    StableSort(Flatten([i \in 1..Len(Resolved) |->
                   LET rows == Selected(snapshot[Resolved[i]], CallWhere)
                   IN  [k \in 1..Len(rows) |-> rows[k].visit_time]]),
               LAMBDA a, b : a > b)

\* how often the record r is among the rows of its profile that satisfy
\* the clauses, and how often in the returned page
TimesStored(r) ==
    Cardinality({k \in 1..Len(snapshot[r.profile].visits) :
        /\ WhereHolds(CallWhere, snapshot[r.profile].visits[k])
        /\ ResultRow(snapshot[r.profile].visits[k], r.profile) = r})

TimesReturned(r) == Cardinality({k \in 1..Len(call.results) : call.results[k] = r})

-----------------------------------------------------------------------------
(* C1 *)

\* C1: for one or more resolved profiles, page >= 1 and per_page >= 1, the
\* returned records are the window [(page-1)*per_page, page*per_page) of all
\* matching records of the resolved profiles sorted by visit time, latest
\* first: their visit times are those of the window, and each is a stored
\* matching record returned no more often than it is stored.
C1_PageIsWindowOfGlobalOrder ==
    (Searched /\ Len(Resolved) >= 1 /\ call.page >= 1 /\ call.per_page >= 1) =>
        /\ [k \in 1..Len(call.results) |-> call.results[k].raw_time]
             = Slice(MatchingTimesDesc, (call.page - 1) * call.per_page,
                     call.page * call.per_page)
        /\ \A k \in 1..Len(call.results) :
             /\ call.results[k].profile \in {Resolved[i] : i \in 1..Len(Resolved)}
             /\ TimesReturned(call.results[k]) <= TimesStored(call.results[k])

-----------------------------------------------------------------------------
(* C3 *)

\* C3: in every returned page, for one resolved profile and for several, no
\* record is followed by a record with a later visit time.
C3_PageIsTimeDescending ==
    Searched =>
        \A k \in 1..(Len(call.results) - 1) :
            call.results[k].raw_time >= call.results[k + 1].raw_time

-----------------------------------------------------------------------------
(* C2 *)

\* the profiles the latest call names whose copy exists
NamedWithCopy ==
    {p \in Profiles : snapshot[p].exists
                      /\ \E i \in 1..Len(Val(call.profiles)) : Val(call.profiles)[i] = p}

\* the clauses of the latest call that are set, on a stored row
KeywordClause(v) ==
    (IsSome(call.keyword) /\ Val(call.keyword) # <<>>) =>
        \/ Like(UrlsTable[v.url].url, <<"%">> \o Val(call.keyword) \o <<"%">>)
        \/ /\ IsSome(UrlsTable[v.url].title)
           /\ Like(Val(UrlsTable[v.url].title), <<"%">> \o Val(call.keyword) \o <<"%">>)

StartClause(v) ==
    IsSome(call.start_date) => v.visit_time >= datetime_to_chrome_time(Val(call.start_date))

EndClause(v) ==
    IsSome(call.end_date) =>
        v.visit_time <= datetime_to_chrome_time(
                            Datetime(DayOf(Val(call.end_date)), SecsPerDay - 1))

\* the stored rows, as profile and rowid, that satisfy every set clause
RowsSatisfyingAll ==
    {pk \in Profiles \X (1..MaxVisits + 1) :
        /\ pk[1] \in NamedWithCopy
        /\ pk[2] <= Len(snapshot[pk[1]].visits)
        /\ KeywordClause(snapshot[pk[1]].visits[pk[2]])
        /\ StartClause(snapshot[pk[1]].visits[pk[2]])
        /\ EndClause(snapshot[pk[1]].visits[pk[2]])}

\* C2: total_count is the number of visit records, over the union of the
\* resolved profiles, that satisfy the conjunction of the filter clauses that
\* are set (every record when none is set), whatever page and per_page.
C2_TotalCountIsUnionCount ==
    Searched => call.total_count = Cardinality(RowsSatisfyingAll)

\* a search of two resolved profiles, with keyword and both dates set, on
\* page 2, that counts a row of each profile and leaves a stored row out
C2_Witness ==
    /\ Searched
    /\ Len(Resolved) = 2
    /\ IsSome(call.keyword) /\ IsSome(call.start_date) /\ IsSome(call.end_date)
    /\ call.page = 2
    /\ call.total_count >= 2
    /\ \A p \in Profiles : \E pk \in RowsSatisfyingAll : pk[1] = p
    /\ \E p \in Profiles : \E k \in 1..Len(snapshot[p].visits) :
           <<p, k>> \notin RowsSatisfyingAll

-----------------------------------------------------------------------------
(* C7 *)

\* the stored rows of the named profiles whose visit time lies from
\* 00:00:00 of the calendar day of start_date (if set) to 23:59:59 of the
\* calendar day of end_date (if set)
RowsWithinDays ==
    {pk \in Profiles \X (1..MaxVisits + 1) :
        /\ pk[1] \in NamedWithCopy
        /\ pk[2] <= Len(snapshot[pk[1]].visits)
        /\ IsSome(call.start_date) =>
              snapshot[pk[1]].visits[pk[2]].visit_time
                >= datetime_to_chrome_time(Datetime(DayOf(Val(call.start_date)), 0))
        /\ IsSome(call.end_date) =>
              snapshot[pk[1]].visits[pk[2]].visit_time
                <= datetime_to_chrome_time(
                       Datetime(DayOf(Val(call.end_date)), SecsPerDay - 1))}

\* C7: the date filter is inclusive of both boundary days: with no keyword a
\* visit is counted exactly when its time is >= 00:00:00 of the day of
\* start_date and <= 23:59:59 of the day of end_date, whatever time of day
\* start_date and end_date carry.
C7_DateFilterCoversWholeDays ==
    (Searched /\ call.keyword = None) =>
        call.total_count = Cardinality(RowsWithinDays)

-----------------------------------------------------------------------------
(* C8 *)

\* upper case as Unicode has it: the ASCII letters and the accented letter
UnicodeUpper(c) == IF c = "e-acute" THEN "E-acute" ELSE AsciiUpper(c)

\* the keyword occurs in the text as a case-insensitive substring
IsSubstringIgnoringCase(keyword, text) ==
    \E i \in 0..(Len(text) - Len(keyword)) :
        \A j \in 1..Len(keyword) : UnicodeUpper(keyword[j]) = UnicodeUpper(text[i + j])

\* the stored rows of the named profiles, as profile and rowid, whose url
\* or title stands in the relation In(keyword, text) to the keyword
RowsWhereKeyword(In(_, _)) ==
    {pk \in Profiles \X (1..MaxVisits + 1) :
        /\ pk[1] \in NamedWithCopy
        /\ pk[2] <= Len(snapshot[pk[1]].visits)
        /\ LET row == UrlsTable[snapshot[pk[1]].visits[pk[2]].url]
           IN  \/ In(Val(call.keyword), row.url)
               \/ IsSome(row.title) /\ In(Val(call.keyword), Val(row.title))}

\* the returned page holds only records of the rows pks and has the length
\* of the window of the page among Cardinality(pks) records
PageDrawnFrom(pks) ==
    /\ Len(call.results)
         = Max2(0, Min2(call.per_page,
                        Cardinality(pks) - (call.page - 1) * call.per_page))
    /\ \A k \in 1..Len(call.results) : \E pk \in pks :
          call.results[k] = ResultRow(snapshot[pk[1]].visits[pk[2]], pk[1])

KeywordOnly ==
    Searched /\ IsSome(call.keyword) /\ call.start_date = None /\ call.end_date = None

\* C8: with a keyword set, a record matches exactly when the keyword occurs
\* as a case-insensitive substring of its URL or of its title; a match in
\* one field only is counted and returned.
C8_MatchIsSubstringIgnoringCase ==
    KeywordOnly =>
        /\ call.total_count = Cardinality(RowsWhereKeyword(IsSubstringIgnoringCase))
        /\ PageDrawnFrom(RowsWhereKeyword(IsSubstringIgnoringCase))

-----------------------------------------------------------------------------
(* C4 *)

\* GET /search has answered with a page
Answered == http.route = "search" /\ http.status = 200

\* C4: the search response satisfies total_pages = ceil(total_count /
\* per_page), that is total_pages is the least number of pages of per_page
\* records that hold total_count records, and 0 <= len(records) <= per_page.
C4_TotalPagesAndPageLength ==
    Answered =>
        /\ http.total_pages * http.per_page >= http.total_count
        /\ (http.total_pages - 1) * http.per_page < http.total_count
        /\ Len(http.results) >= 0
        /\ Len(http.results) <= http.per_page

\* a response with a last page that is not full, and a full page returned
C4_Witness ==
    /\ Answered
    /\ http.total_count % http.per_page # 0
    /\ http.total_pages >= 2
    /\ Len(http.results) = http.per_page

-----------------------------------------------------------------------------
(* C9 *)

\* a date parameter that is there and is no date
UnparsableDate(arg) ==
    /\ IsSome(arg) /\ Strip(Val(arg)) # <<>>
    /\ DateFromIsoformat(Strip(Val(arg))).raised

\* a page parameter that is no number or is a number below 1
BadPage(arg) ==
    IsSome(arg) /\ (ParseInt(Val(arg)).raised \/ ParseInt(Val(arg)).value < 1)

\* C9: at /search every unparsable date and every out-of-range or unparsable
\* page is replaced by a safe default (no date filter, page 1): the request
\* calls search_history with the default and answers successfully.
C9_BadInputGetsDefault ==
    http.route = "search" =>
        /\ http.status = 200
        /\ http.called
        /\ UnparsableDate(http.start) => call.start_date = None
        /\ UnparsableDate(http.end) => call.end_date = None
        /\ BadPage(http.page) => call.page = 1

-----------------------------------------------------------------------------
(* C5 *)

\* the profiles the latest call names whose copy is a readable database
NamedReadable == {p \in NamedWithCopy : Readable(snapshot[p])}

\* the stored rows of those profiles, as profile and rowid
RowsOfReadable ==
    {pk \in Profiles \X (1..MaxVisits + 1) :
        pk[1] \in NamedReadable /\ pk[2] <= Len(snapshot[pk[1]].visits)}

\* C5: a profile whose copy is missing or unreadable never makes
\* search_history raise; it contributes count 0 and no records, and the
\* counts and records of the other profiles are in total_count and the page.
C5_BadCopyIsLocal ==
    (call.op = "search_history" /\ call.keyword = None
        /\ call.start_date = None /\ call.end_date = None) =>
        /\ ~call.raised
        /\ call.total_count = Cardinality(RowsOfReadable)
        /\ PageDrawnFrom(RowsOfReadable)

\* a search of both profiles, one copy unreadable, returns the other's rows
C5_Witness ==
    /\ call.op = "search_history"
    /\ Len(Val(call.profiles)) = 2
    /\ \E p \in Profiles : snapshot[p].exists /\ ~snapshot[p].valid
    /\ Len(call.results) >= 1

-----------------------------------------------------------------------------
(* C6 *)

\* the rows of the named profiles that the latest refresh reported present
RowsOfRefreshed ==
    {pk \in RowsOfReadable : IsSome(copied.paths[pk[1]])}

\* C6: a profile that the most recent refresh reported absent (source file
\* missing or copy failed) is excluded from every following search: no
\* record of it is returned and total_count counts none of its rows, also
\* when an earlier refresh had succeeded for it.
C6_AbsentAfterRefreshIsExcluded ==
    (call.op = "search_history" /\ copied.done) =>
        /\ \A k \in 1..Len(call.results) : IsSome(copied.paths[call.results[k].profile])
        /\ call.total_count = Cardinality(RowsOfRefreshed)

-----------------------------------------------------------------------------
(* C10 *)

\* POST /refresh is the latest step
Refreshed == http.route = "refresh"

\* C10: refresh attempts every configured profile and returns one entry per
\* profile, the destination path exactly when the source file existed and
\* its copy succeeded and None otherwise; a missing source or a failed copy
\* never raises and never keeps another profile from being copied (only a
\* failure to create TEMP_DIR raises).
C10_RefreshReportsEachProfile ==
    Refreshed =>
        /\ copied.raised <=> ~copied.mkdir_ok
        /\ copied.mkdir_ok =>
              /\ http.status = 200
              /\ \A p \in Profiles :
                    /\ copied.paths[p] = IF copied.existed[p] /\ copied.copy_ok[p]
                                         THEN Some(DestPath(p)) ELSE None
                    /\ copied.copy_ok[p] => snapshot[p] = source[p]
                    /\ copied.existed[p] = source[p].exists

\* a refresh in which the copy of the first profile fails and the second
\* profile is copied
C10_Witness ==
    /\ Refreshed
    /\ ~copied.raised
    /\ copied.existed[HISTORY_PATHS[1]] /\ ~copied.copy_ok[HISTORY_PATHS[1]]
    /\ copied.paths[HISTORY_PATHS[1]] = None
    /\ copied.paths[HISTORY_PATHS[2]] = Some(DestPath(HISTORY_PATHS[2]))
    /\ snapshot[HISTORY_PATHS[2]] = source[HISTORY_PATHS[2]]

-----------------------------------------------------------------------------
(* C11 *)

\* a datetime has been converted to a Chrome time and back
RoundTripped == codec.op = "result"

\* the Unix seconds at which the local clock shows the wall-clock second of dt
UnixSecondsShowing(dt) ==
    {u \in {dt \div MicrosPerSec - StdOffset, dt \div MicrosPerSec - DstOffset} :
        LocalFromUnix(u) = dt \div MicrosPerSec}

\* C11 as claimed: for any wall-clock timestamp t truncated to whole seconds,
\* chrome_time_to_datetime(datetime_to_chrome_time(t)) = t: the round trip
\* preserves the date and the time of day exactly.
C11_RoundTripIsIdentity ==
    RoundTripped =>
        /\ codec.result = codec.dt
        /\ strftime(codec.result) = strftime(codec.dt)

\* C11 as amended: for any wall-clock timestamp t truncated to whole seconds
\* that the local clock shows at some instant (t is not in the time skipped
\* when the clocks go forward), the round trip returns t.
C11_RoundTripOfShownTime ==
    (RoundTripped /\ UnixSecondsShowing(codec.dt) # {}) =>
        /\ codec.result = codec.dt
        /\ strftime(codec.result) = strftime(codec.dt)

\* a round trip of a time the clock shows twice (the clocks went back), and
\* one of a time of day other than midnight inside daylight saving time
C11_Witness ==
    /\ RoundTripped
    /\ codec.result = codec.dt
    /\ \/ Cardinality(UnixSecondsShowing(codec.dt)) = 2
       \/ /\ SecondOf(codec.dt) # 0
          /\ UtcOffset(UnixFromLocal(codec.dt \div MicrosPerSec)) = DstOffset

-----------------------------------------------------------------------------
(* C12 under SpecRace: what the queries of a search find while a refresh   *)
(* overwrites the snapshots.                                               *)

\* the whole files a snapshot of a profile can be: the one taken earlier
\* and the copy of the live file
WholeSnapshots(profile) == {RaceOld, source[profile]}

\* C12: every read a search makes of a snapshot that a refresh overwrites
\* finds the whole old snapshot or the whole new one, never a file that the
\* copy has opened for writing and not written to the end, however the
\* steps of the copy and the count and fetch steps of the search interleave.
C12_ReadsSeeWholeSnapshot ==
    \A k \in 1..Len(searching.reads) :
        searching.reads[k].overwritten =>
            /\ ~searching.reads[k].half_written
            /\ searching.reads[k].file \in WholeSnapshots(searching.reads[k].profile)

====
